---- MODULE Spec2Model ----
(***************************************************************************)
(* A model of ai_screenshot_namer/main.py: the image-size cap              *)
(* (_calc_max_image_size), the filename sanitizer (sanitize_filename),     *)
(* the naming call (suggest_image_name) and the command loop (cli).        *)
(*                                                                         *)
(* Strings are sequences of one-character strings.  Python floats are      *)
(* IEEE-754 binary64 values, modelled bit by bit: a positive float is a    *)
(* record [m |-> 53 significand bits, most significant first,              *)
(*         e |-> the binary exponent of the last bit].                     *)
(***************************************************************************)
EXTENDS Integers, Sequences, FiniteSets, TLC

VARIABLES
    \* one call of _calc_max_image_size
    arg_size, ret_size, size_pc,
    \* sanitize_filename applied once, then again to its own result
    arg_filename, arg_max_length, ret_sanitized, ret_resanitized, san_pc,
    \* one call of suggest_image_name
    sg_args, sg_ret, sg_pc,
    \* a run of cli
    pc, screenshots, do_rename, really_use_openai, idx, results, renamed,
    screenshot, reply, suggestion, new_name, raised

size_vars == <<arg_size, ret_size, size_pc>>
san_vars  == <<arg_filename, arg_max_length, ret_sanitized, ret_resanitized,
               san_pc>>
sg_vars   == <<sg_args, sg_ret, sg_pc>>
cli_vars  == <<pc, screenshots, do_rename, really_use_openai, idx, results,
               renamed, screenshot, reply, suggestion, new_name, raised>>
vars      == <<size_vars, san_vars, sg_vars, cli_vars>>

\* Python's None where a str is expected: a one-element sequence holding a
\* token that is no character, so it differs from every string
None == <<"None">>
\* Python's None where a datetime is expected
NoDate == [year |-> 0, month |-> 0, day |-> 0]
\* no image size (nothing was encoded)
NoSize == <<0, 0>>

\* ------------------------------------------------------------------------
\* Python float arithmetic (int / int, float * int, int(float))
\* All intermediate integers stay below 2^31; operands are below 2^14.
\* ------------------------------------------------------------------------

\* width of a binary64 significand
MANT_BITS == 53
\* width of the limbs the significand is cut into for a multiplication
LIMB_BITS == 15

Zeros(n) == [i \in 1..n |-> 0]

\* the w low binary digits of n, most significant first
BitsOfWidth(n, w) == [i \in 1..w |-> (n \div (2 ^ (w - i))) % 2]

RECURSIVE BitsNatUpTo(_, _)
\* the number whose binary digits are b[1..k]
BitsNatUpTo(b, k) == IF k = 0 THEN 0 ELSE 2 * BitsNatUpTo(b, k - 1) + b[k]

BitsNat(b) == BitsNatUpTo(b, Len(b))

\* b without its leading zeros (b holds at least one 1)
StripLeadingZeros(b) ==
    LET first == CHOOSE i \in 1..Len(b) :
                     b[i] = 1 /\ \A j \in 1..(i - 1) : b[j] = 0
    IN  SubSeq(b, first, Len(b))

\* the bit string plus one (one bit longer when every bit was 1)
IncBits(b) ==
    IF \A i \in 1..Len(b) : b[i] = 1 THEN <<1>> \o Zeros(Len(b))
    ELSE LET last0 == CHOOSE i \in 1..Len(b) :
                          b[i] = 0 /\ \A j \in (i + 1)..Len(b) : b[j] = 1
         IN  [i \in 1..Len(b) |->
                 IF i < last0 THEN b[i] ELSE IF i = last0 THEN 1 ELSE 0]

\* round-to-nearest, ties-to-even, of the positive value b * 2^e (plus a
\* nonzero amount below the last bit of b when sticky) to a binary64;
\* b starts with a 1
RoundBits(b, e, sticky) ==
    IF Len(b) <= MANT_BITS
    THEN [m |-> b \o Zeros(MANT_BITS - Len(b)), e |-> e - (MANT_BITS - Len(b))]
    ELSE LET keep  == SubSeq(b, 1, MANT_BITS)
             guard == b[MANT_BITS + 1]
             st    == sticky \/ \E i \in (MANT_BITS + 2)..Len(b) : b[i] = 1
             up    == guard = 1 /\ (st \/ keep[MANT_BITS] = 1)
             e2    == e + Len(b) - MANT_BITS
             inc   == IncBits(keep)
         IN  IF ~up THEN [m |-> keep, e |-> e2]
             ELSE IF Len(inc) > MANT_BITS
                  THEN [m |-> SubSeq(inc, 1, MANT_BITS), e |-> e2 + 1]
                  ELSE [m |-> inc, e |-> e2]

RECURSIVE PowMod(_, _, _)
\* x^q mod n
PowMod(x, q, n) ==
    IF q = 0 THEN 1 % n ELSE (PowMod(x, q - 1, n) * (x % n)) % n

\* 2^i mod n, for n up to 2^15
Pow2Mod(i, n) ==
    (PowMod(2 ^ LIMB_BITS, i \div LIMB_BITS, n) * ((2 ^ (i % LIMB_BITS)) % n)) % n

\* the binary digit of weight 2^(-i) of the exact quotient a / b
QuotBit(a, b, i) ==
    IF i < 0 THEN (a \div (b * (2 ^ (0 - i)))) % 2
    ELSE IF (((a % (2 * b)) * Pow2Mod(i, 2 * b)) % (2 * b)) >= b THEN 1 ELSE 0

\* a / b for positive ints a, b: the correctly rounded binary64 quotient
\* (the first MANT_BITS + 1 digits of the quotient, then rounded)
FloatDiv(a, b) ==
    LET first == CHOOSE i \in (0 - LIMB_BITS)..LIMB_BITS :
                     /\ QuotBit(a, b, i) = 1
                     /\ \A j \in (0 - LIMB_BITS)..(i - 1) : QuotBit(a, b, j) = 0
        last  == first + MANT_BITS
        bits  == [j \in 1..(MANT_BITS + 1) |-> QuotBit(a, b, first + j - 1)]
        rest  == ((a % b) * Pow2Mod(last, b)) % b
    IN  RoundBits(bits, 0 - last, rest # 0)

\* x * c for a float x and a positive int c: the exact product of the
\* significand and c, limb by limb from the least significant, then rounded
FloatMulInt(x, c) ==
    LET base   == 2 ^ LIMB_BITS
        padded == Zeros(4 * LIMB_BITS - MANT_BITS) \o x.m
        limb(k) == BitsNat(SubSeq(padded, LIMB_BITS * (k - 1) + 1, LIMB_BITS * k))
        t4 == limb(4) * c
        t3 == limb(3) * c + (t4 \div base)
        t2 == limb(2) * c + (t3 \div base)
        t1 == limb(1) * c + (t2 \div base)
        product == BitsOfWidth(t1 \div base, LIMB_BITS)
                       \o BitsOfWidth(t1 % base, LIMB_BITS)
                       \o BitsOfWidth(t2 % base, LIMB_BITS)
                       \o BitsOfWidth(t3 % base, LIMB_BITS)
                       \o BitsOfWidth(t4 % base, LIMB_BITS)
    IN  RoundBits(StripLeadingZeros(product), x.e, FALSE)

\* int(x): truncation of a positive float towards zero
IntOfFloat(x) ==
    IF x.e >= 0 THEN BitsNat(x.m) * (2 ^ x.e)
    ELSE IF MANT_BITS + x.e <= 0 THEN 0
    ELSE BitsNat(SubSeq(x.m, 1, MANT_BITS + x.e))

\* ------------------------------------------------------------------------
\* _calc_max_image_size
\* ------------------------------------------------------------------------

LONG_SIDE_MAX == 2000
SHORT_SIDE_MAX == 768

\* the second clamp dropped: only the long side is capped
_calc_max_image_size_LongOnly(size) ==
    LET long_idx  == IF size[1] > size[2] THEN 1 ELSE 2
        short_idx == 3 - long_idx
    IN  IF size[long_idx] > LONG_SIDE_MAX
        THEN [size EXCEPT
                ![short_idx] = IntOfFloat(FloatMulInt(
                                   FloatDiv(LONG_SIDE_MAX, size[long_idx]),
                                   size[short_idx])),
                ![long_idx] = LONG_SIDE_MAX]
        ELSE size

\* size is <<width, height>>; index 1 is Python's index 0
_calc_max_image_size(size) ==
    LET long_idx  == IF size[1] > size[2] THEN 1 ELSE 2
        short_idx == 3 - long_idx
        clamped   ==
            IF size[long_idx] > LONG_SIDE_MAX
            THEN [size EXCEPT
                    ![short_idx] = IntOfFloat(FloatMulInt(
                                       FloatDiv(LONG_SIDE_MAX, size[long_idx]),
                                       size[short_idx])),
                    ![long_idx] = LONG_SIDE_MAX]
            ELSE size
    IN  IF clamped[short_idx] > SHORT_SIDE_MAX
        THEN [clamped EXCEPT
                ![long_idx] = IntOfFloat(FloatMulInt(
                                  FloatDiv(SHORT_SIDE_MAX, size[short_idx]),
                                  size[long_idx])),
                ![short_idx] = SHORT_SIDE_MAX]
        ELSE clamped

\* ------------------------------------------------------------------------
\* Python str operations; a str is a sequence of one-character strings
\* ------------------------------------------------------------------------

Letters == {"a", "b", "e", "g", "i", "m", "n", "o", "r", "t", "x", "F", "L"}
Digits == {"0", "1", "2", "3", "4", "5", "6", "7", "8", "9"}
\* characters str.isspace() and the regex class \s accept
Whitespace == {" ", "\t", "\n", "\r", "\f"}

\* the regex class \w
IsWordChar(c) == c \in Letters \cup Digits \cup {"_"}
\* the regex class \s, and what str.strip() removes
IsSpace(c) == c \in Whitespace

\* str.strip()
strip(s) ==
    LET keep == {i \in 1..Len(s) : ~IsSpace(s[i])}
    IN  IF keep = {} THEN <<>>
        ELSE SubSeq(s, CHOOSE i \in keep : \A j \in keep : i <= j,
                       CHOOSE i \in keep : \A j \in keep : i >= j)

\* str.replace(old, new) for one-character old and new
replace(s, old, new) == [i \in 1..Len(s) |-> IF s[i] = old THEN new ELSE s[i]]

\* s[:n]
slice_to(s, n) ==
    IF n >= 0 THEN SubSeq(s, 1, IF n < Len(s) THEN n ELSE Len(s))
    ELSE SubSeq(s, 1, IF Len(s) + n > 0 THEN Len(s) + n ELSE 0)

\* re.sub(r"[^\w\s]", "", s)
re_sub_non_word_non_space(s) ==
    SelectSeq(s, LAMBDA c : IsWordChar(c) \/ IsSpace(c))

\* ------------------------------------------------------------------------
\* sanitize_filename
\* ------------------------------------------------------------------------

\* the carriage return left in place
sanitize_filename_KeepCR(filename, max_length) ==
    slice_to(replace(strip(filename), "\n", "_"), max_length)

sanitize_filename(filename, max_length) ==
    slice_to(replace(replace(strip(filename), "\n", "_"), "\r", "_"), max_length)

\* ------------------------------------------------------------------------
\* The inputs: images, OCR runs, backend responses, screenshots
\* ------------------------------------------------------------------------

\* longest backend response enumerated character by character
MaxDraftLen == 2
\* length of the long backend responses (above FILENAME_MAX_CHARACTERS)
LongDraftLen == 70

DraftChars == {"a", " ", "!"}

RECURSIVE StringsUpTo(_, _)
\* every string over chars of length at most n
StringsUpTo(chars, n) ==
    IF n = 0 THEN {<<>>}
    ELSE LET shorter == StringsUpTo(chars, n - 1)
         IN  shorter \cup {Append(s, c) : s \in shorter, c \in chars}

LoginFormDraft ==
    <<"L", "o", "g", "i", "n", " ", "F", "o", "r", "m", "!", "!", " ">>

LongDrafts ==
    {[i \in 1..LongDraftLen |-> IF i % 9 = 0 THEN c ELSE "a"] : c \in {"a", " "}}

Drafts ==
    StringsUpTo(DraftChars, MaxDraftLen)
        \cup {LoginFormDraft, <<"\n">>, <<"a", "\t", "b">>}
        \cup LongDrafts

\* what the backend call does: raises, or returns a message whose content
\* is None or a str
Responses ==
    {[kind |-> "raise", content |-> None], [kind |-> "content", content |-> None]}
        \cup {[kind |-> "content", content |-> d] : d \in Drafts}

OcrText == <<"t", "e", "x", "t">>

\* what the shell command of the OCR shortcut ends with
OcrRuns ==
    {[why |-> "text extracted",     returncode |-> 0,   stdout |-> OcrText],
     [why |-> "no text in image",   returncode |-> 0,   stdout |-> <<>>],
     [why |-> "capability missing", returncode |-> 1,   stdout |-> <<>>],
     [why |-> "non-zero exit",      returncode |-> 1,   stdout |-> OcrText],
     [why |-> "wrong platform",     returncode |-> 127, stdout |-> <<>>]}

ImageSizes == {<<800, 600>>, <<1024, 800>>, <<4000, 3000>>}

Images == [exists : BOOLEAN, size : ImageSizes]

\* _calc_max_image_size on the sizes of the images at hand, evaluated once
CappedSize == [s \in ImageSizes |-> _calc_max_image_size(s)]

\* ------------------------------------------------------------------------
\* suggest_image_name and what it calls
\* ------------------------------------------------------------------------

\* truth value of an Optional[str]: neither None nor empty
Truthy_NotNone(s) == s # None

Truthy(s) == s # None /\ s # <<>>

\* the captured output returned whatever the exit status
_get_text_from_image_AnyExit(run) == run.stdout

\* check=True raises CalledProcessError on a nonzero return code (a missing
\* command is the shell's 127); the handler echoes it and returns None
_get_text_from_image(run) ==
    IF run.returncode # 0 THEN None ELSE run.stdout

BasePrompt == <<"PROMPT">>

OcrPrompt(ocr_text) ==
    <<"PROMPT", "\n", "PROMPT_OCR_EXT", "\nText from image:\n">> \o ocr_text

\* Image.resize returns a new image, which is dropped: the image saved and
\* encoded is the one opened
_encode_image(exists, image_size) ==
    IF ~exists
    THEN [exc |-> "FileNotFoundError", format |-> "none", size |-> NoSize,
          echoed_resize |-> FALSE]
    ELSE LET new_size == CappedSize[image_size]
         IN  [exc |-> "none", format |-> "WEBP", size |-> image_size,
              echoed_resize |-> new_size # image_size]

NoRequest ==
    [backend |-> "none", prompt |-> <<>>,
     image |-> [format |-> "none", size |-> NoSize]]

\* image: the file at image_path; run: how the OCR command ends;
\* resp: how the backend call ends
suggest_image_name(image, ocr, use_ollama, run, resp) ==
    LET ocr_text == IF ocr THEN _get_text_from_image(run) ELSE None
        prompt   == IF ocr /\ Truthy(ocr_text) THEN OcrPrompt(ocr_text)
                    ELSE BasePrompt
        encoded  == _encode_image(image.exists, image.size)
        request  ==
            IF use_ollama
            THEN [backend |-> "ollama", prompt |-> prompt,
                  image |-> [format |-> "file", size |-> image.size]]
            ELSE IF encoded.exc # "none" THEN NoRequest
            ELSE [backend |-> "openai", prompt |-> prompt,
                  image |-> [format |-> encoded.format, size |-> encoded.size]]
        exc      == IF ~use_ollama /\ encoded.exc # "none" THEN encoded.exc
                    ELSE IF resp.kind = "raise" THEN "BackendError"
                    ELSE "none"
        content  == IF exc = "none" THEN resp.content ELSE None
    IN  [ocr_text |-> ocr_text,
         prompt   |-> prompt,
         request  |-> request,
         exc      |-> exc,
         result   |-> IF content # None
                      THEN replace(re_sub_non_word_non_space(content), " ", "_")
                      ELSE None]

\* ------------------------------------------------------------------------
\* cli and what it calls
\* ------------------------------------------------------------------------

FILENAME_MAX_CHARACTERS == 64

\* most screenshots on one command line
MaxFiles == 2

\* a stem as the date extraction sees it: what date_pattern.search finds
\* (None: no match) and what dateparser.parse makes of it (NoDate: None)
StemDated ==
    [match |-> <<"2", "0", "2", "4", "-", "0", "5", "-", "2", "4">>,
     parsed |-> [year |-> 2024, month |-> 5, day |-> 24]]
StemPlain == [match |-> None, parsed |-> NoDate]
StemUnparsed ==
    [match |-> <<"9", "9", "9", "9", "9", "9", "9", "9">>, parsed |-> NoDate]

\* the screenshots a command line may name: click checked that each exists
Files ==
    {[stem |-> StemDated, suffix |-> <<".", "p", "n", "g">>,
      image |-> [exists |-> TRUE, size |-> <<4000, 3000>>],
      ocr_run |-> [why |-> "text extracted", returncode |-> 0, stdout |-> OcrText]],
     [stem |-> StemPlain, suffix |-> <<".", "p", "n", "g">>,
      image |-> [exists |-> TRUE, size |-> <<800, 600>>],
      ocr_run |-> [why |-> "wrong platform", returncode |-> 127, stdout |-> <<>>]],
     [stem |-> StemPlain, suffix |-> <<>>,
      image |-> [exists |-> TRUE, size |-> <<1024, 800>>],
      ocr_run |-> [why |-> "no text in image", returncode |-> 0, stdout |-> <<>>]],
     [stem |-> StemUnparsed, suffix |-> <<>>,
      image |-> [exists |-> TRUE, size |-> <<800, 600>>],
      ocr_run |-> [why |-> "non-zero exit", returncode |-> 1, stdout |-> OcrText]]}

NoFile ==
    [stem |-> [match |-> None, parsed |-> NoDate], suffix |-> <<>>,
     image |-> [exists |-> FALSE, size |-> NoSize],
     ocr_run |-> [why |-> "none", returncode |-> 0, stdout |-> <<>>]]

NoReply == [kind |-> "none", content |-> None]

_extract_date_from_filename(stem) ==
    IF stem.match # None THEN stem.parsed ELSE NoDate

DigitChars == <<"0", "1", "2", "3", "4", "5", "6", "7", "8", "9">>

\* n in decimal, zero-padded to w digits
ZeroPad(n, w) == [i \in 1..w |-> DigitChars[((n \div (10 ^ (w - i))) % 10) + 1]]

\* date.strftime("%Y-%m-%d")
strftime_Ymd(d) ==
    ZeroPad(d.year, 4) \o <<"-">> \o ZeroPad(d.month, 2) \o <<"-">>
        \o ZeroPad(d.day, 2)

\* "" if date is None else f"{date.strftime("%Y-%m-%d")}-"
date_str_of(d) == IF d = NoDate THEN <<>> ELSE strftime_Ymd(d) \o <<"-">>

\* the whole cap given to the sanitizer, the date prefix not deducted
new_stem_FullBudget(date_str, name) ==
    date_str \o sanitize_filename(name, FILENAME_MAX_CHARACTERS)

\* f"{date_str}{sanitize_filename(suggestion, FILENAME_MAX_CHARACTERS - len(date_str))}"
new_stem(date_str, name) ==
    date_str \o sanitize_filename(name, FILENAME_MAX_CHARACTERS - Len(date_str))

\* Path.with_name(name) raises ValueError on an empty name, on "." and on a
\* name holding a path separator
with_name_raises(name) ==
    name = <<>> \/ name = <<".">> \/ \E i \in 1..Len(name) : name[i] = "/"

\* how a returned suggestion counts: None, the empty str, or text
SuggestionClass(s) ==
    IF s = None THEN "absent" ELSE IF s = <<>> THEN "empty" ELSE "text"

CliIdle ==
    /\ pc = "idle" /\ screenshots = 0 /\ do_rename = FALSE
    /\ really_use_openai = FALSE /\ idx = 0 /\ results = <<>> /\ renamed = {}
    /\ screenshot = NoFile /\ reply = NoReply /\ suggestion = None
    /\ new_name = None /\ raised = "none"

CliInit ==
    /\ pc = "start" /\ screenshots = 0 /\ do_rename = FALSE
    /\ really_use_openai = FALSE /\ idx = 0 /\ results = <<>> /\ renamed = {}
    /\ screenshot = NoFile /\ reply = NoReply /\ suggestion = None
    /\ new_name = None /\ raised = "none"

\* cli called with no screenshot: the usage error is echoed, nothing is done
CliNoScreenshots ==
    /\ pc = "start"
    /\ \E rename_flag \in BOOLEAN :
           /\ do_rename' = rename_flag
           /\ pc' = "usage"
    /\ UNCHANGED <<screenshots, really_use_openai, idx, results, renamed,
                   screenshot, reply, suggestion, new_name, raised>>
    /\ UNCHANGED <<size_vars, san_vars, sg_vars>>

\* cli called with screenshots: the backend is chosen, the loop is entered
CliEnter ==
    /\ pc = "start"
    /\ \E n \in 1..MaxFiles, use_openai \in BOOLEAN, rename_flag \in BOOLEAN,
          AISN_OPENAI_MODEL \in {None, <<>>, <<"g">>} :
           /\ screenshots' = n
           /\ do_rename' = rename_flag
           /\ really_use_openai' = (use_openai \/ Truthy(AISN_OPENAI_MODEL))
           /\ pc' = "loop"
    /\ UNCHANGED <<idx, results, renamed, screenshot, reply, suggestion,
                   new_name, raised>>
    /\ UNCHANGED <<size_vars, san_vars, sg_vars>>

\* one pass of the for loop over the next screenshot f, the backend call
\* ending as resp; an exception leaves cli
CliIterate ==
    /\ pc = "loop"
    /\ idx < screenshots
    /\ \E f \in Files, resp \in Responses :
       \E date_str \in {date_str_of(_extract_date_from_filename(f.stem))} :
       \E ret \in {suggest_image_name(f.image, TRUE, ~really_use_openai,
                                      f.ocr_run, resp)} :
       \E named \in {ret.exc = "none" /\ Truthy(ret.result)} :
       \E stem \in {IF named THEN new_stem(date_str, ret.result) ELSE None} :
       \E failed \in {IF ret.exc # "none" THEN ret.exc
                      ELSE IF named /\ with_name_raises(stem \o f.suffix)
                           THEN "ValueError"
                      ELSE "none"} :
             /\ idx' = idx + 1
             /\ screenshot' = f
             /\ reply' = resp
             /\ suggestion' = ret.result
             /\ results' = Append(results,
                                  IF ret.exc # "none" THEN "raised"
                                  ELSE SuggestionClass(ret.result))
             /\ new_name' = stem
             /\ raised' = failed
             /\ pc' = IF failed # "none" THEN "raised" ELSE "loop"
             /\ renamed' = IF named /\ failed = "none" /\ do_rename
                           THEN renamed \cup {idx + 1}
                           ELSE renamed
    /\ UNCHANGED <<screenshots, do_rename, really_use_openai>>
    /\ UNCHANGED <<size_vars, san_vars, sg_vars>>

\* the loop is over
CliReturn ==
    /\ pc = "loop"
    /\ idx = screenshots
    /\ pc' = "done"
    /\ UNCHANGED <<screenshots, do_rename, really_use_openai, idx, results,
                   renamed, screenshot, reply, suggestion, new_name, raised>>
    /\ UNCHANGED <<size_vars, san_vars, sg_vars>>

\* ------------------------------------------------------------------------
\* One call of _calc_max_image_size, of sanitize_filename (twice), and of
\* suggest_image_name
\* ------------------------------------------------------------------------

\* the sizes tried: a grid of MaxDimK multiples of DimStep, and the sizes
\* around the two limits
MaxDimK == 20
DimStep == 211
SpecialDims ==
    {1, 512, 767, 768, 769, 800, 964, 1024, 1070, 1205, 2000, 2001, 2105,
     3000, 4000}
Dims == {k * DimStep : k \in 1..MaxDimK} \cup SpecialDims

SizeIdle == arg_size = NoSize /\ ret_size = NoSize /\ size_pc = "idle"

SizeInit == arg_size \in Dims \X Dims /\ ret_size = NoSize /\ size_pc = "ready"

CalcMaxImageSize ==
    /\ size_pc = "ready"
    /\ ret_size' = _calc_max_image_size(arg_size)
    /\ size_pc' = "done"
    /\ UNCHANGED <<arg_size, san_vars, sg_vars, cli_vars>>

\* the strings given to sanitize_filename: all of length up to MaxSanLen
MaxSanLen == 4
SanChars == {"a", " ", "\n", "\r", "\t"}

SanIdle ==
    /\ arg_filename = <<>> /\ arg_max_length = 0 /\ ret_sanitized = <<>>
    /\ ret_resanitized = <<>> /\ san_pc = "idle"

SanInit ==
    /\ arg_filename \in StringsUpTo(SanChars, MaxSanLen)
    /\ arg_max_length \in 0..(MaxSanLen + 1)
    /\ ret_sanitized = <<>> /\ ret_resanitized = <<>> /\ san_pc = "ready"

Sanitize ==
    /\ san_pc = "ready"
    /\ ret_sanitized' = sanitize_filename(arg_filename, arg_max_length)
    /\ san_pc' = "once"
    /\ UNCHANGED <<arg_filename, arg_max_length, ret_resanitized, size_vars,
                   sg_vars, cli_vars>>

SanitizeAgain ==
    /\ san_pc = "once"
    /\ ret_resanitized' = sanitize_filename(ret_sanitized, arg_max_length)
    /\ san_pc' = "twice"
    /\ UNCHANGED <<arg_filename, arg_max_length, ret_sanitized, size_vars,
                   sg_vars, cli_vars>>

NoArgs ==
    [image |-> [exists |-> FALSE, size |-> NoSize], ocr |-> FALSE,
     use_ollama |-> FALSE,
     run |-> [why |-> "none", returncode |-> 0, stdout |-> <<>>],
     resp |-> NoReply]

NoRet ==
    [ocr_text |-> None, prompt |-> <<>>, request |-> NoRequest, exc |-> "none",
     result |-> None]

SgIdle == sg_args = NoArgs /\ sg_ret = NoRet /\ sg_pc = "idle"

SgInit ==
    /\ sg_args \in [image : Images, ocr : BOOLEAN, use_ollama : BOOLEAN,
                    run : OcrRuns, resp : Responses]
    /\ sg_ret = NoRet
    /\ sg_pc = "ready"

SuggestImageName ==
    /\ sg_pc = "ready"
    /\ sg_ret' = suggest_image_name(sg_args.image, sg_args.ocr,
                                    sg_args.use_ollama, sg_args.run,
                                    sg_args.resp)
    /\ sg_pc' = IF sg_ret'.exc = "none" THEN "returned" ELSE "raised"
    /\ UNCHANGED <<sg_args, size_vars, san_vars, cli_vars>>

\* ------------------------------------------------------------------------
\* Specifications
\* ------------------------------------------------------------------------

Init == CliInit /\ SizeIdle /\ SanIdle /\ SgIdle
Next == CliNoScreenshots \/ CliEnter \/ CliIterate \/ CliReturn
\* a run of cli
Spec == Init /\ [][Next]_vars

SizeSpecInit == SizeInit /\ SanIdle /\ SgIdle /\ CliIdle
SizeNext == CalcMaxImageSize
\* one call of _calc_max_image_size on each size
SpecSize == SizeSpecInit /\ [][SizeNext]_vars

SanSpecInit == SanInit /\ SizeIdle /\ SgIdle /\ CliIdle
SanNext == Sanitize \/ SanitizeAgain
\* sanitize_filename on each string and length, then on its own result
SpecSanitize == SanSpecInit /\ [][SanNext]_vars

SgSpecInit == SgInit /\ SizeIdle /\ SanIdle /\ CliIdle
SgNext == SuggestImageName
\* one call of suggest_image_name in each environment
SpecSuggest == SgSpecInit /\ [][SgNext]_vars

\* ------------------------------------------------------------------------
\* Properties
\* ------------------------------------------------------------------------

Max2(a, b) == IF a >= b THEN a ELSE b
Min2(a, b) == IF a <= b THEN a ELSE b

\* the files on which rename was due: a non-empty suggestion was returned
\* and the new path could be composed
Renamable ==
    {i \in 1..Len(results) :
        results[i] = "text" /\ ~(i = Len(results) /\ raised = "ValueError")}

C2_BackendFailureDoesNotAbortBatch ==
    (pc = "raised" /\ raised = "BackendError") => idx = screenshots

\* the suggest_image_name call is over and its OCR command had failed
OcrFailed ==
    /\ sg_pc \in {"returned", "raised"}
    /\ sg_args.ocr
    /\ sg_args.run.returncode # 0

\* C3: when the OCR command fails, _get_text_from_image returns None, the
\* prompt is the base prompt, and the selected backend is still called with
\* it (the image being there)
C3_OcrFailureDegradesToBasePrompt ==
    OcrFailed =>
        /\ sg_ret.ocr_text = None
        /\ sg_ret.prompt = <<"PROMPT">>
        /\ (sg_args.use_ollama \/ sg_args.image.exists) =>
               /\ sg_ret.request.backend =
                      (IF sg_args.use_ollama THEN "ollama" ELSE "openai")
               /\ sg_ret.request.prompt = <<"PROMPT">>
               /\ sg_ret.exc \in {"none", "BackendError"}

\* the OCR command ended with a non-zero exit after partial output, the
\* remote backend was still called and answered
C3_Witness ==
    /\ OcrFailed
    /\ sg_args.run.stdout # <<>>
    /\ sg_pc = "returned"
    /\ sg_ret.request.backend = "openai"
    /\ sg_ret.result # None

\* the date cli extracted from the stem of the screenshot at hand
ExtractedDate == _extract_date_from_filename(screenshot.stem)

\* the value of a string of decimal digits
RECURSIVE DecimalValue(_)
DecimalValue(s) ==
    IF s = <<>> THEN 0
    ELSE 10 * DecimalValue(SubSeq(s, 1, Len(s) - 1))
             + (CHOOSE k \in 0..9 : DigitChars[k + 1] = s[Len(s)])

\* s starts with d as YYYY-MM-DD and a dash
HasDatePrefix(s, d) ==
    /\ Len(s) >= 11
    /\ \A i \in {1, 2, 3, 4, 6, 7, 9, 10} : s[i] \in Digits
    /\ s[5] = "-" /\ s[8] = "-" /\ s[11] = "-"
    /\ DecimalValue(SubSeq(s, 1, 4)) = d.year
    /\ DecimalValue(SubSeq(s, 6, 7)) = d.month
    /\ DecimalValue(SubSeq(s, 9, 10)) = d.day

C5_NameIsAlphanumericOrUnderscore ==
    (new_name # None /\ ExtractedDate = NoDate) =>
        /\ \A i \in 1..Len(new_name) :
               new_name[i] \in Letters \cup Digits \cup {"_"}
        /\ reply.content = LoginFormDraft =>
               new_name = <<"L", "o", "g", "i", "n", "_", "F", "o", "r", "m">>

\* C6: the result of sanitize_filename has at most max_length characters and
\* holds no newline and no carriage return
C6_SanitizedIsCappedWithoutLineBreaks ==
    san_pc \in {"once", "twice"} =>
        /\ Len(ret_sanitized) <= arg_max_length
        /\ \A i \in 1..Len(ret_sanitized) : ret_sanitized[i] \notin {"\n", "\r"}

\* a string longer than the cap, with a carriage return inside, sanitized
C6_Witness ==
    /\ san_pc = "once"
    /\ arg_max_length = 2
    /\ Len(arg_filename) > arg_max_length
    /\ arg_filename[2] = "\r"
    /\ arg_filename[1] = "a"
    /\ ret_sanitized = <<"a", "_">>

\* C7 (as stated): sanitizing a sanitized string again changes nothing
C7_SanitizeIsIdempotent ==
    san_pc = "twice" => ret_resanitized = ret_sanitized

\* C8: the size returned has its longer side at most 2000, its shorter side
\* at most 768, and neither side larger than it was
C8_SizeWithinLimitsNeverEnlarged ==
    size_pc = "done" =>
        /\ Max2(ret_size[1], ret_size[2]) <= 2000
        /\ Min2(ret_size[1], ret_size[2]) <= 768
        /\ ret_size[1] <= arg_size[1]
        /\ ret_size[2] <= arg_size[2]

\* both clamps fired: the long side was above 2000 and the intermediate
\* short side above 768
C8_Witness ==
    /\ size_pc = "done"
    /\ arg_size = <<4000, 3000>>
    /\ ret_size[2] = 768
    /\ ret_size[1] < 2000

\* C9 (as stated): with the longer side at most 2000, the size is unchanged
\* when the shorter side is at most 768, and else the shorter side is 768
\* and the longer one floor(768 * long / short), each on its own axis
C9_ShortClampIsExactFloor ==
    (size_pc = "done" /\ Max2(arg_size[1], arg_size[2]) <= 2000) =>
        IF Min2(arg_size[1], arg_size[2]) <= 768 THEN ret_size = arg_size
        ELSE \/ /\ arg_size[1] >= arg_size[2]
                /\ ret_size = <<(768 * arg_size[1]) \div arg_size[2], 768>>
             \/ /\ arg_size[2] >= arg_size[1]
                /\ ret_size = <<768, (768 * arg_size[2]) \div arg_size[1]>>

\* C10 (as stated): the image sent to the remote backend has the size
\* _calc_max_image_size computed, so its longer side is at most 2000 and its
\* shorter side at most 768
C10_SubmittedImageHasCappedSize ==
    (sg_pc \in {"returned", "raised"} /\ sg_ret.request.backend = "openai") =>
        /\ sg_ret.request.image.size = CappedSize[sg_args.image.size]
        /\ Max2(sg_ret.request.image.size[1], sg_ret.request.image.size[2])
               <= 2000
        /\ Min2(sg_ret.request.image.size[1], sg_ret.request.image.size[2])
               <= 768

====
